---- MODULE Spec2Model ----
(***************************************************************************)
(* exun: the two-variant error container Exun<E, U>, the type-erased box   *)
(* RawUnexpected, and the Result/Option extension traits.                  *)
(*                                                                         *)
(* The library is a set of pure functions.  They are modelled as operators *)
(* over dynamically tagged values, and a caller drives one value through   *)
(* its lifecycle (construct, transform, consume), one operation per step.  *)
(*                                                                         *)
(* Text (what Display and Debug write) is a sequence of string tokens; a   *)
(* backquote of the source's literals is written as an apostrophe.         *)
(***************************************************************************)
EXTENDS Integers, Sequences, FiniteSets, TLC

\* ------------------------------------------------------------------ bounds
\* Largest integer payload a caller starts with.
MaxInt == 2
\* Longest chain of operations applied to one value.
MaxSteps == 5

\* ------------------------------------------------------------------ values
Nil == [tag |-> "Nil"]

IntVal(n) == [k |-> "int", n |-> n]
StrVal(s) == [k |-> "str", s |-> s]
ErrVal(id) == [k |-> "err", id |-> id]

\* The fixed text RawUnexpected displays in the None state.
NoneText == <<"Called 'unexpect' on a 'None' value">>

\* Payloads callers hand to the library.
Ints == {IntVal(n) : n \in 0..MaxInt}
Strs == {StrVal(<<"failure">>), StrVal(NoneText)}
\* Values of types implementing std::error::Error.
ErrIds == {"FmtError", "ParseIntError", "OuterError"}
Errs == {ErrVal(id) : id \in ErrIds}
Payloads == Ints \cup Strs \cup Errs
\* Messages given to expect.
Msgs == {<<"Testing expect">>}

\* Option and Result of the standard library.
None == [tag |-> "None"]
Some(v) == [tag |-> "Some", v |-> v]
Ok(v) == [tag |-> "Ok", v |-> v]
Err(e) == [tag |-> "Err", e |-> e]

\* enum Exun<E, U> { Expected(E), Unexpected(U) }
Expected(e) == [tag |-> "Expected", e |-> e]
Unexpected(u) == [tag |-> "Unexpected", u |-> u]

\* enum ErrorTy { None, Message(Box<dyn Errorable>), Error(Box<dyn Error>) }
ErrorTyNone == [ty |-> "None"]
ErrorTyMessage(m) == [ty |-> "Message", m |-> m]
ErrorTyError(e) == [ty |-> "Error", e |-> e]

\* struct RawUnexpected { internal: ErrorTy }
RawUnexpected(internal) == [k |-> "raw", internal |-> internal]

\* struct UnexpectedError(RawUnexpected)
UnexpectedError(ru) == [k |-> "uerr", inner |-> ru]

\* The outcome of a call that may panic.
Return(v) == [tag |-> "Return", v |-> v]
Panic(msg) == [tag |-> "Panic", msg |-> msg]

\* Whether a call ended in a panic instead of returning a value.
IsPanic(r) == "tag" \in DOMAIN r /\ r.tag = "Panic"

\* ------------------------------------------------------------------- text
Digit == <<"0", "1", "2", "3", "4", "5", "6", "7", "8", "9">>

\* Decimal rendering of a natural number, one token per digit.
RECURSIVE Itoa(_)
Itoa(n) ==
    IF n < 10 THEN <<Digit[n + 1]>>
    ELSE Itoa(n \div 10) \o <<Digit[(n % 10) + 1]>>

\* Whether text sub occurs in text t at offset i (0-based).
OccursAt(sub, t, i) ==
    /\ i + Len(sub) <= Len(t)
    /\ SubSeq(t, i + 1, i + Len(sub)) = sub

Contains(t, sub) == \E i \in 0..Len(t) : OccursAt(sub, t, i)

\* Display of the error types the callers use.
ErrDisplay(id) ==
    CASE id = "FmtError" -> <<"an error occurred when formatting an argument">>
      [] id = "ParseIntError" -> <<"invalid digit found in string">>
      [] id = "OuterError" -> <<"outer operation failed">>

\* Error::source of the error types the callers use: OuterError declares
\* ParseIntError as its cause, the other two declare none.
ErrSource(id) ==
    IF id = "OuterError" THEN Some(ErrVal("ParseIntError")) ELSE None

\* impl Display for RawUnexpected and for UnexpectedError, and Display of
\* the payload types.
RECURSIVE Display(_)
DisplayMessageAsDebugMutant(v) ==
    CASE v.k = "int" -> Itoa(v.n)
      [] v.k = "str" -> v.s
      [] v.k = "err" -> ErrDisplay(v.id)
      [] v.k = "uerr" -> Display(v.inner)
      [] v.k = "raw" ->
            CASE v.internal.ty = "None" -> NoneText
              [] v.internal.ty = "Message" -> <<"\"">> \o Display(v.internal.m) \o <<"\"">>
              [] v.internal.ty = "Error" -> <<v.internal.e.id>>
DisplayNoneEmptyMutant(v) ==
    CASE v.k = "int" -> Itoa(v.n)
      [] v.k = "str" -> v.s
      [] v.k = "err" -> ErrDisplay(v.id)
      [] v.k = "uerr" -> Display(v.inner)
      [] v.k = "raw" ->
            CASE v.internal.ty = "None" -> <<>>
              [] v.internal.ty = "Message" -> Display(v.internal.m)
              [] v.internal.ty = "Error" -> Display(v.internal.e)
Display(v) ==
    CASE v.k = "int" -> Itoa(v.n)
      [] v.k = "str" -> v.s
      [] v.k = "err" -> ErrDisplay(v.id)
      [] v.k = "uerr" -> Display(v.inner)
      [] v.k = "raw" ->
            CASE v.internal.ty = "None" -> NoneText
              [] v.internal.ty = "Message" -> Display(v.internal.m)
              [] v.internal.ty = "Error" -> Display(v.internal.e)

\* Debug: integers as digits, strings quoted, unit-struct errors by name,
\* and the derived Debug of RawUnexpected, ErrorTy and UnexpectedError.
RECURSIVE Debug(_)
Debug(v) ==
    CASE v.k = "int" -> Itoa(v.n)
      [] v.k = "str" -> <<"\"">> \o v.s \o <<"\"">>
      [] v.k = "err" -> <<v.id>>
      [] v.k = "uerr" -> <<"UnexpectedError(">> \o Debug(v.inner) \o <<")">>
      [] v.k = "raw" ->
            <<"RawUnexpected { internal: ">> \o
            (CASE v.internal.ty = "None" -> <<"None">>
               [] v.internal.ty = "Message" ->
                     <<"Message(">> \o Debug(v.internal.m) \o <<")">>
               [] v.internal.ty = "Error" ->
                     <<"Error(">> \o Debug(v.internal.e) \o <<")">>) \o
            <<" }">>

\* ------------------------------------------------------- RawUnexpected
\* RawUnexpected::new
RawNewAsMessageMutant(error) == RawUnexpected(ErrorTyMessage(error))
RawNew(error) == RawUnexpected(ErrorTyError(error))

\* RawUnexpected::msg
RawMsg(error) == RawUnexpected(ErrorTyMessage(error))

\* RawUnexpected::none
RawNone == RawUnexpected(ErrorTyNone)

\* RawUnexpected::source: the boxed error itself, for the Error state only.
RawSourceOfCauseMutant(self) ==
    CASE self.internal.ty = "None" -> None
      [] self.internal.ty = "Message" -> None
      [] self.internal.ty = "Error" -> ErrSource(self.internal.e.id)
RawSource(self) ==
    CASE self.internal.ty = "None" -> None
      [] self.internal.ty = "Message" -> None
      [] self.internal.ty = "Error" -> Some(self.internal.e)

\* ----------------------------------------------------- UnexpectedError
\* impl From<RawUnexpected> for UnexpectedError
UErrFrom(ru) == UnexpectedError(ru)

\* impl Error for UnexpectedError: source
UErrNoSourceMutant(self) == None
UErrSource(self) == RawSource(self.inner)

\* impl AsRef<RawUnexpected> for UnexpectedError
UErrAsRef(self) == self.inner

\* ---------------------------------------------------------------- Exun
\* impl Display for Exun
ExunDisplay(self) ==
    CASE self.tag = "Expected" -> Display(self.e)
      [] self.tag = "Unexpected" -> Display(self.u)

\* impl Error for Exun<E, U>, E and U errors: source
ExunSourceOfPayloadMutant(self) ==
    CASE self.tag = "Expected" -> ErrSource(self.e.id)
      [] self.tag = "Unexpected" ->
            IF self.u.k = "uerr" THEN UErrSource(self.u) ELSE ErrSource(self.u.id)
ExunSource(self) ==
    CASE self.tag = "Expected" -> Some(self.e)
      [] self.tag = "Unexpected" -> Some(self.u)

\* impl Error for Exun<E, RawUnexpected>: source
ExunRawSource(self) ==
    CASE self.tag = "Expected" -> Some(self.e)
      [] self.tag = "Unexpected" -> RawSource(self.u)

\* Exun::expected
ExpectedOfBothMutant(self) ==
    CASE self.tag = "Expected" -> Some(self.e)
      [] self.tag = "Unexpected" -> Some(self.u)
ExunExpected(self) ==
    CASE self.tag = "Expected" -> Some(self.e)
      [] self.tag = "Unexpected" -> None

\* Exun::unexpected
ExunUnexpected(self) ==
    CASE self.tag = "Expected" -> None
      [] self.tag = "Unexpected" -> Some(self.u)

\* The payload a container holds.
Payload(c) == IF c.tag = "Expected" THEN c.e ELSE c.u

\* Exun::as_mut: an Exun of references into self.
AsMut(self) ==
    CASE self.tag = "Expected" -> Expected("e")
      [] self.tag = "Unexpected" -> Unexpected("u")

\* The payload a view returned by as_mut refers to.
ViewRef(view) == IF view.tag = "Expected" THEN view.e ELSE view.u

\* Reading and assigning through the reference a view holds.
ReadThrough(self, view) == IF ViewRef(view) = "e" THEN self.e ELSE self.u
WriteThrough(self, view, nv) ==
    IF ViewRef(view) = "e" THEN [self EXCEPT !.e = nv] ELSE [self EXCEPT !.u = nv]

\* The functions callers pass to the map family.
Fns == {"times10", "inc", "stringify"}

Applicable(f, v) == f = "stringify" \/ v.k = "int"

Apply(f, v) ==
    CASE f = "times10" -> IntVal(v.n * 10)
      [] f = "inc" -> IntVal(v.n + 1)
      [] f = "stringify" -> StrVal(<<"error code: ">> \o Display(v))

\* Exun::map; calls lists the arguments op was invoked with.
MapBothMutant(self, op) ==
    CASE self.tag = "Expected" ->
            [out |-> Expected(Apply(op, self.e)), calls |-> <<self.e>>]
      [] self.tag = "Unexpected" ->
            [out |-> Expected(self.u), calls |-> <<>>]
ExunMap(self, op) ==
    CASE self.tag = "Expected" ->
            [out |-> Expected(Apply(op, self.e)), calls |-> <<self.e>>]
      [] self.tag = "Unexpected" ->
            [out |-> Unexpected(self.u), calls |-> <<>>]

\* Exun::map_unexpected
MapUnexpectedDropMutant(self, op) ==
    CASE self.tag = "Expected" ->
            [out |-> Expected(self.e), calls |-> <<>>]
      [] self.tag = "Unexpected" ->
            [out |-> Unexpected(self.u), calls |-> <<>>]
ExunMapUnexpected(self, op) ==
    CASE self.tag = "Expected" ->
            [out |-> Expected(self.e), calls |-> <<>>]
      [] self.tag = "Unexpected" ->
            [out |-> Unexpected(Apply(op, self.u)), calls |-> <<self.u>>]

\* Exun::expect
ExpectNoMsgMutant(self, msg) ==
    CASE self.tag = "Expected" -> Return(self.e)
      [] self.tag = "Unexpected" -> Panic(Debug(self.u))
ExunExpect(self, msg) ==
    CASE self.tag = "Expected" -> Return(self.e)
      [] self.tag = "Unexpected" -> Panic(msg \o <<": ">> \o Debug(self.u))

\* Exun::unwrap
ExunUnwrap(self) ==
    CASE self.tag = "Expected" -> Return(self.e)
      [] self.tag = "Unexpected" ->
            Panic(<<"called 'Expect::unwrap' on an 'Unexpected' value: ">>
                  \o Debug(self.u))

\* Exun::unwrap_unexpected
ExunUnwrapUnexpected(self) ==
    CASE self.tag = "Expected" ->
            Panic(<<"called 'Expect::unwrap_unexpected' on an 'Expected' value: ">>
                  \o Debug(self.e))
      [] self.tag = "Unexpected" -> Return(self.u)

\* impl From<E: Error> for Exun<E, U>
FromError(e) == Expected(e)

\* impl From<RawUnexpected> for Exun<E, RawUnexpected>
FromRaw(ue) == Unexpected(ue)

\* impl From<RawUnexpected> for Exun<E, UnexpectedError>
FromRawWrapped(ue) == Unexpected(UErrFrom(ue))

\* ------------------------------------------------- Result and Option
\* Result::unwrap_err of the standard library.
UnwrapErr(self) ==
    CASE self.tag = "Ok" ->
            Panic(<<"called 'Result::unwrap_err()' on an 'Ok' value: ">>
                  \o Debug(self.v))
      [] self.tag = "Err" -> Return(self.e)

\* ResultErrorExt::unexpect for Result<T, E: Error>
ResultUnexpectMsgMutant(self) ==
    CASE self.tag = "Ok" -> Ok(self.v)
      [] self.tag = "Err" -> Err(RawMsg(self.e))
ResultUnexpect(self) ==
    CASE self.tag = "Ok" -> Ok(self.v)
      [] self.tag = "Err" -> Err(RawNew(self.e))

\* ResultErrorExt::unexpect for Result<T, RawUnexpected>
RawResultReboxMutant(self) ==
    CASE self.tag = "Ok" -> Ok(self.v)
      [] self.tag = "Err" -> Err(RawMsg(self.e))
RawResultUnexpect(self) == self

\* ResultErrorExt::unexpect for Option<T>
OptionUnexpect(self) ==
    CASE self.tag = "Some" -> Ok(self.v)
      [] self.tag = "None" -> Err(RawNone)

\* ResultMsgExt::unexpect_msg for Result<T, E: Errorable>
ResultUnexpectMsg(self) ==
    CASE self.tag = "Ok" -> Ok(self.v)
      [] self.tag = "Err" -> Err(RawMsg(self.e))

\* ResultExunExt::expected_err
ExpectedErrUnwrapMutant(self) ==
    IF IsPanic(UnwrapErr(self)) THEN UnwrapErr(self)
    ELSE ExunExpected(UnwrapErr(self).v)
ExpectedErr(self) ==
    CASE self.tag = "Ok" -> None
      [] self.tag = "Err" -> ExunExpected(self.e)

\* ResultExunExt::unexpected_err
UnexpectedErrDropMutant(self) == None
UnexpectedErr(self) ==
    CASE self.tag = "Ok" -> None
      [] self.tag = "Err" -> ExunUnexpected(self.e)

\* ResultExunExt::map_expected_err
MapExpectedErr(self, op) ==
    CASE self.tag = "Ok" -> [out |-> Ok(self.v), calls |-> <<>>]
      [] self.tag = "Err" ->
            [out |-> Err(ExunMap(self.e, op).out),
             calls |-> ExunMap(self.e, op).calls]

\* ResultExunExt::map_unexpected_err
MapUnexpectedErr(self, op) ==
    CASE self.tag = "Ok" -> [out |-> Ok(self.v), calls |-> <<>>]
      [] self.tag = "Err" ->
            [out |-> Err(ExunMapUnexpected(self.e, op).out),
             calls |-> ExunMapUnexpected(self.e, op).calls]

\* ResultExunExt::unwrap_result
UnwrapResultOkPanicsMutant(self) ==
    CASE self.tag = "Ok" -> Panic(Debug(self.v))
      [] self.tag = "Err" ->
            IF ExunUnwrap(self.e).tag = "Panic" THEN ExunUnwrap(self.e)
            ELSE Return(Err(ExunUnwrap(self.e).v))
UnwrapResult(self) ==
    CASE self.tag = "Ok" -> Return(Ok(self.v))
      [] self.tag = "Err" ->
            IF ExunUnwrap(self.e).tag = "Panic" THEN ExunUnwrap(self.e)
            ELSE Return(Err(ExunUnwrap(self.e).v))

\* ResultExunExt::unwrap_expected_err
UnwrapExpectedErr(self) ==
    IF UnwrapErr(self).tag = "Panic" THEN UnwrapErr(self)
    ELSE ExunUnwrap(UnwrapErr(self).v)

\* ResultExunExt::unwrap_unexpected_err
UnwrapUnexpectedErr(self) ==
    IF UnwrapErr(self).tag = "Panic" THEN UnwrapErr(self)
    ELSE ExunUnwrapUnexpected(UnwrapErr(self).v)

\* The conversion the try operator applies to Result<T, RawUnexpected> in a
\* function returning Result<T, Exun<E, RawUnexpected>>.
TryInto(self) ==
    CASE self.tag = "Ok" -> Ok(self.v)
      [] self.tag = "Err" -> Err(FromRaw(self.e))

\* ------------------------------------------------------------- the state
VARIABLES
    val,    \* the value the caller holds
    ty,     \* its type: Start, Exun, ResultExun, Result, Option, Raw, UErr, Done,
            \* Panicked
    root,   \* the payload the caller started from
    ctag,   \* the variant the container was constructed as ("None": no container)
    hist,   \* the operations applied so far
    last,   \* the last operation: its name, input, argument, output, closure calls
    panic   \* the panic diagnostic, once a call has panicked

vars == <<val, ty, root, ctag, hist, last, panic>>

NoOp == [op |-> "nothing", in |-> Nil, arg |-> Nil, out |-> Nil, calls |-> <<>>]

Init ==
    /\ val = Nil
    /\ ty = "Start"
    /\ root = Nil
    /\ ctag = "None"
    /\ hist = <<>>
    /\ last = NoOp
    /\ panic = Nil

\* A value of a type's other inhabitants, for assignment through as_mut.
SameType(v) ==
    CASE v.k = "raw" -> {RawNone, RawMsg(StrVal(<<"failure">>))}
      [] v.k = "uerr" -> {UnexpectedError(RawNone)}
      [] OTHER -> {p \in Payloads : p.k = v.k}

\* The type of a Result's failure, when it holds one.
ErrKind(r) == IF r.tag = "Err" THEN r.e.k ELSE "none"

\* The container the caller holds, directly or as the failure of a Result.
HasContainer ==
    \/ ty = "Exun"
    \/ ty = "ResultExun" /\ val.tag = "Err"

Container == IF ty = "Exun" THEN val ELSE val.e

\* One call of an operation that gave out: the caller now holds v of type
\* t, unless the call panicked, which leaves the caller with the diagnostic.
Step(op, t, v, arg, out, calls) ==
    /\ Len(hist) < MaxSteps
    /\ hist' = Append(hist, op)
    /\ IF IsPanic(out)
       THEN /\ val' = Nil
            /\ ty' = "Panicked"
            /\ panic' = out
            /\ last' = [op |-> op, in |-> val, arg |-> arg, out |-> Nil,
                        calls |-> <<>>]
       ELSE /\ val' = v
            /\ ty' = t
            /\ panic' = panic
            /\ last' = [op |-> op, in |-> val, arg |-> arg, out |-> out,
                        calls |-> calls]

\* A call of the unwrap family: it returns r.v or panics with r.msg.
Fatal(op, arg, r) ==
    /\ Step(op, "Done", r.v, arg, IF IsPanic(r) THEN r ELSE r.v, <<>>)
    /\ UNCHANGED <<root, ctag>>

\* ---------------------------------------------------------- construction
NewExpected ==
    \E e \in Payloads :
        /\ ty = "Start"
        /\ Step("Expected", "Exun", Expected(e), e, Expected(e), <<>>)
        /\ root' = e
        /\ ctag' = "Expected"

NewUnexpected ==
    \E u \in Payloads :
        /\ ty = "Start"
        /\ Step("Unexpected", "Exun", Unexpected(u), u, Unexpected(u), <<>>)
        /\ root' = u
        /\ ctag' = "Unexpected"

ExunFromError ==
    \E e \in Errs :
        /\ ty = "Start"
        /\ Step("from", "Exun", FromError(e), e, FromError(e), <<>>)
        /\ root' = e
        /\ ctag' = FromError(e).tag

NewOk ==
    \E v \in Ints, t \in {"Result", "ResultExun"} :
        /\ ty = "Start"
        /\ Step("Ok", t, Ok(v), v, Ok(v), <<>>)
        /\ root' = v
        /\ UNCHANGED ctag

NewErr ==
    \E e \in Payloads :
        /\ ty = "Start"
        /\ Step("Err", "Result", Err(e), e, Err(e), <<>>)
        /\ root' = e
        /\ UNCHANGED ctag

NewOption ==
    \E o \in {None} \cup {Some(v) : v \in Ints} :
        /\ ty = "Start"
        /\ Step("Option", "Option", o, Nil, o, <<>>)
        /\ root' = o
        /\ UNCHANGED ctag

BoxNew ==
    \E e \in Errs :
        /\ ty = "Start"
        /\ Step("new", "Raw", RawNew(e), e, RawNew(e), <<>>)
        /\ root' = e
        /\ UNCHANGED ctag

BoxMsg ==
    \E v \in Payloads :
        /\ ty = "Start"
        /\ Step("msg", "Raw", RawMsg(v), v, RawMsg(v), <<>>)
        /\ root' = v
        /\ UNCHANGED ctag

BoxNone ==
    /\ ty = "Start"
    /\ Step("none", "Raw", RawNone, Nil, RawNone, <<>>)
    /\ UNCHANGED <<root, ctag>>

\* The caller returns the container or the box as a failure: Err(val).
WrapErr ==
    /\ ty \in {"Exun", "Raw"}
    /\ Step("Err", IF ty = "Exun" THEN "ResultExun" ELSE "Result",
            Err(val), Nil, Err(val), <<>>)
    /\ UNCHANGED <<root, ctag>>

\* The caller converts the box into a container: Exun::from(box).
BoxInto ==
    /\ ty = "Raw"
    /\ Step("into", "Exun", FromRaw(val), Nil, FromRaw(val), <<>>)
    /\ ctag' = FromRaw(val).tag
    /\ UNCHANGED root

\* The caller converts the box into a container whose unexpected side is
\* the chainable wrapper: Exun::<E, UnexpectedError>::from(box).
BoxIntoWrapped ==
    /\ ty = "Raw"
    /\ Step("into_wrapped", "Exun", FromRawWrapped(val), Nil, FromRawWrapped(val), <<>>)
    /\ ctag' = FromRawWrapped(val).tag
    /\ UNCHANGED root

\* UnexpectedError::from(box)
BoxWrap ==
    /\ ty = "Raw"
    /\ Step("wrap", "UErr", UErrFrom(val), Nil, UErrFrom(val), <<>>)
    /\ UNCHANGED <<root, ctag>>

\* The try operator on a Result<T, RawUnexpected>.
ResultInto ==
    /\ ty = "Result"
    /\ ErrKind(val) \in {"none", "raw"}
    /\ Step("into", "ResultExun", TryInto(val), Nil, TryInto(val), <<>>)
    /\ ctag' = IF val.tag = "Err" THEN TryInto(val).e.tag ELSE ctag
    /\ UNCHANGED root

\* ------------------------------------------------- operations on Exun
\* c.map(op)
Map ==
    \E op \in Fns :
        /\ ty = "Exun"
        /\ val.tag = "Expected" => Applicable(op, val.e)
        /\ Step("map", "Exun", ExunMap(val, op).out, op,
                ExunMap(val, op).out, ExunMap(val, op).calls)
        /\ UNCHANGED <<root, ctag>>

\* c.map_unexpected(op)
MapUnexpected ==
    \E op \in Fns :
        /\ ty = "Exun"
        /\ val.tag = "Unexpected" => Applicable(op, val.u)
        /\ Step("map_unexpected", "Exun", ExunMapUnexpected(val, op).out, op,
                ExunMapUnexpected(val, op).out, ExunMapUnexpected(val, op).calls)
        /\ UNCHANGED <<root, ctag>>

\* match c.as_mut() { Expected(e) => *e = nv, Unexpected(u) => *u = nv }
AsMutWrite ==
    /\ ty = "Exun"
    /\ \E nv \in SameType(ReadThrough(val, AsMut(val))) :
          Step("as_mut", "Exun", WriteThrough(val, AsMut(val), nv), nv,
               AsMut(val), <<>>)
    /\ UNCHANGED <<root, ctag>>

\* c.expected()
TakeExpected ==
    /\ ty = "Exun"
    /\ Step("expected", "Done", ExunExpected(val), Nil, ExunExpected(val), <<>>)
    /\ UNCHANGED <<root, ctag>>

\* c.unexpected()
TakeUnexpected ==
    /\ ty = "Exun"
    /\ Step("unexpected", "Done", ExunUnexpected(val), Nil, ExunUnexpected(val), <<>>)
    /\ UNCHANGED <<root, ctag>>

\* c.unwrap()
Unwrap ==
    /\ ty = "Exun"
    /\ Fatal("unwrap", Nil, ExunUnwrap(val))

\* c.expect(msg)
Expect ==
    \E msg \in Msgs :
        /\ ty = "Exun"
        /\ Fatal("expect", [tag |-> "Text", t |-> msg], ExunExpect(val, msg))

\* c.unwrap_unexpected()
UnwrapUnexpected ==
    /\ ty = "Exun"
    /\ Fatal("unwrap_unexpected", Nil, ExunUnwrapUnexpected(val))

\* c.to_string(), on the container held directly or matched out of Err(c)
ShowExun ==
    /\ HasContainer
    /\ Step("display", ty, val, Nil,
            [tag |-> "Text", t |-> ExunDisplay(Container)], <<>>)
    /\ UNCHANGED <<root, ctag>>

\* c.source(), for a container whose payload types are errors; the impl
\* for Exun<E, RawUnexpected> is chosen when the unexpected side is the box
ContainerSource ==
    /\ ty = "Exun"
    /\ Payload(val).k \in {"err", "uerr", "raw"}
    /\ IF Payload(val).k = "raw"
       THEN Step("source", "Exun", val, Nil, ExunRawSource(val), <<>>)
       ELSE Step("source", "Exun", val, Nil, ExunSource(val), <<>>)
    /\ UNCHANGED <<root, ctag>>

\* -------------------------------------- operations on RawUnexpected
\* b.source()
BoxSource ==
    /\ ty = "Raw"
    /\ Step("source", "Raw", val, Nil, RawSource(val), <<>>)
    /\ UNCHANGED <<root, ctag>>

\* b.to_string()
ShowBox ==
    /\ ty = "Raw"
    /\ Step("display", "Raw", val, Nil, [tag |-> "Text", t |-> Display(val)], <<>>)
    /\ UNCHANGED <<root, ctag>>

\* ------------------------------------ operations on UnexpectedError
\* w.source()
WrapperSource ==
    /\ ty = "UErr"
    /\ Step("source", "UErr", val, Nil, UErrSource(val), <<>>)
    /\ UNCHANGED <<root, ctag>>

\* w.to_string()
ShowWrapper ==
    /\ ty = "UErr"
    /\ Step("display", "UErr", val, Nil, [tag |-> "Text", t |-> Display(val)], <<>>)
    /\ UNCHANGED <<root, ctag>>

\* w.as_ref()
WrapperAsRef ==
    /\ ty = "UErr"
    /\ Step("as_ref", "UErr", val, Nil, UErrAsRef(val), <<>>)
    /\ UNCHANGED <<root, ctag>>

\* ------------------------------ operations on Result<T, E> and Option<T>
\* r.unexpect(): the impl is chosen by the failure type
Unexpect ==
    /\ ty = "Result"
    /\ ErrKind(val) \in {"none", "err", "raw"}
    /\ IF ErrKind(val) = "raw"
       THEN Step("unexpect", "Result", RawResultUnexpect(val), Nil,
                 RawResultUnexpect(val), <<>>)
       ELSE Step("unexpect", "Result", ResultUnexpect(val), Nil,
                 ResultUnexpect(val), <<>>)
    /\ UNCHANGED <<root, ctag>>

\* r.unexpect_msg()
UnexpectMsg ==
    /\ ty = "Result"
    /\ Step("unexpect_msg", "Result", ResultUnexpectMsg(val), Nil,
            ResultUnexpectMsg(val), <<>>)
    /\ UNCHANGED <<root, ctag>>

\* o.unexpect()
UnexpectOption ==
    /\ ty = "Option"
    /\ Step("unexpect", "Result", OptionUnexpect(val), Nil, OptionUnexpect(val), <<>>)
    /\ UNCHANGED <<root, ctag>>

\* ------------------------------ operations on Result<T, Exun<E, U>>
\* r.expected_err()
TakeExpectedErr ==
    /\ ty = "ResultExun"
    /\ Step("expected_err", "Done", ExpectedErr(val), Nil, ExpectedErr(val), <<>>)
    /\ UNCHANGED <<root, ctag>>

\* r.unexpected_err()
TakeUnexpectedErr ==
    /\ ty = "ResultExun"
    /\ Step("unexpected_err", "Done", UnexpectedErr(val), Nil, UnexpectedErr(val), <<>>)
    /\ UNCHANGED <<root, ctag>>

\* r.map_expected_err(op)
MapExpectedErrStep ==
    \E op \in Fns :
        /\ ty = "ResultExun"
        /\ (val.tag = "Err" /\ val.e.tag = "Expected") => Applicable(op, val.e.e)
        /\ Step("map_expected_err", "ResultExun", MapExpectedErr(val, op).out, op,
                MapExpectedErr(val, op).out, MapExpectedErr(val, op).calls)
        /\ UNCHANGED <<root, ctag>>

\* r.map_unexpected_err(op)
MapUnexpectedErrStep ==
    \E op \in Fns :
        /\ ty = "ResultExun"
        /\ (val.tag = "Err" /\ val.e.tag = "Unexpected") => Applicable(op, val.e.u)
        /\ Step("map_unexpected_err", "ResultExun", MapUnexpectedErr(val, op).out, op,
                MapUnexpectedErr(val, op).out, MapUnexpectedErr(val, op).calls)
        /\ UNCHANGED <<root, ctag>>

\* r.unwrap_result()
UnwrapResultStep ==
    /\ ty = "ResultExun"
    /\ Fatal("unwrap_result", Nil, UnwrapResult(val))

\* r.unwrap_expected_err()
UnwrapExpectedErrStep ==
    /\ ty = "ResultExun"
    /\ Fatal("unwrap_expected_err", Nil, UnwrapExpectedErr(val))

\* r.unwrap_unexpected_err()
UnwrapUnexpectedErrStep ==
    /\ ty = "ResultExun"
    /\ Fatal("unwrap_unexpected_err", Nil, UnwrapUnexpectedErr(val))

Next ==
    \/ NewExpected \/ NewUnexpected \/ ExunFromError
    \/ NewOk \/ NewErr \/ NewOption
    \/ BoxNew \/ BoxMsg \/ BoxNone
    \/ WrapErr \/ BoxInto \/ BoxIntoWrapped \/ BoxWrap \/ ResultInto
    \/ Map \/ MapUnexpected \/ AsMutWrite
    \/ TakeExpected \/ TakeUnexpected
    \/ Unwrap \/ Expect \/ UnwrapUnexpected
    \/ ShowExun \/ ContainerSource \/ BoxSource \/ ShowBox
    \/ WrapperSource \/ ShowWrapper \/ WrapperAsRef
    \/ Unexpect \/ UnexpectMsg \/ UnexpectOption
    \/ TakeExpectedErr \/ TakeUnexpectedErr
    \/ MapExpectedErrStep \/ MapUnexpectedErrStep
    \/ UnwrapResultStep \/ UnwrapExpectedErrStep \/ UnwrapUnexpectedErrStep

Spec == Init /\ [][Next]_vars

\* ============================================================== claims
\* C1: for every container c exactly one of c.expected() and c.unexpected()
\* is Some: Expected(e) gives (Some(e), None), Unexpected(u) gives
\* (None, Some(u)); and the two extractions return just that.
C1_ExactlyOneSide ==
    /\ HasContainer =>
          /\ (ExunExpected(Container).tag = "Some")
                <=> ~(ExunUnexpected(Container).tag = "Some")
          /\ ExunExpected(Container).tag \in {"Some", "None"}
          /\ ExunUnexpected(Container).tag \in {"Some", "None"}
          /\ Container.tag = "Expected" =>
                /\ ExunExpected(Container) = Some(Container.e)
                /\ ExunUnexpected(Container) = None
          /\ Container.tag = "Unexpected" =>
                /\ ExunExpected(Container) = None
                /\ ExunUnexpected(Container) = Some(Container.u)
    /\ last.op = "expected" =>
          last.out = (IF last.in.tag = "Expected" THEN Some(last.in.e) ELSE None)
    /\ last.op = "unexpected" =>
          last.out = (IF last.in.tag = "Unexpected" THEN Some(last.in.u) ELSE None)

C1_Witness ==
    /\ last.op = "unexpected"
    /\ last.in = Unexpected(StrVal(<<"failure">>))
    /\ last.out = Some(StrVal(<<"failure">>))

\* C2: map(f) on Expected(e) yields Expected(f(e)); on Unexpected(u) it
\* yields Unexpected(u) and f is not called.  map_unexpected(f) on
\* Unexpected(u) yields Unexpected(f(u)); on Expected(e) it yields
\* Expected(e) and f is not called.
C2_MapLaws ==
    /\ last.op = "map" =>
          /\ val = last.out
          /\ last.in.tag = "Expected" =>
                /\ last.out = Expected(Apply(last.arg, last.in.e))
                /\ last.calls = <<last.in.e>>
          /\ last.in.tag = "Unexpected" =>
                /\ last.out = Unexpected(last.in.u)
                /\ last.calls = <<>>
    /\ last.op = "map_unexpected" =>
          /\ val = last.out
          /\ last.in.tag = "Unexpected" =>
                /\ last.out = Unexpected(Apply(last.arg, last.in.u))
                /\ last.calls = <<last.in.u>>
          /\ last.in.tag = "Expected" =>
                /\ last.out = Expected(last.in.e)
                /\ last.calls = <<>>

C2_Witness ==
    /\ last.op = "map_unexpected"
    /\ last.arg = "stringify"
    /\ last.in = Unexpected(IntVal(2))
    /\ last.out = Unexpected(StrVal(<<"error code: ", "2">>))

\* C3: the variant of a container survives propagation: whatever sequence
\* of map, map_unexpected, assignment through as_mut, map_expected_err and
\* map_unexpected_err is applied, a container constructed as Expected is
\* Expected and one constructed as Unexpected is Unexpected.
C3_TagSurvives ==
    HasContainer => (ctag \in {"Expected", "Unexpected"} /\ Container.tag = ctag)

C3_Witness ==
    /\ HasContainer
    /\ ctag = "Unexpected"
    /\ hist = <<"Unexpected", "map", "as_mut", "Err", "map_expected_err">>

\* C4: unwrap() and expect(msg) return e on Expected(e) and panic on every
\* Unexpected(u); unwrap_unexpected() returns u on Unexpected(u) and panics
\* on every Expected(e); the panic text contains the Debug rendering of the
\* mismatched payload and, for expect, msg before it.
C4_UnwrapFamily ==
    /\ last.op \in {"unwrap", "expect"} =>
          /\ last.in.tag = "Expected" =>
                ty = "Done" /\ val = last.in.e /\ panic = Nil
          /\ last.in.tag = "Unexpected" =>
                /\ ty = "Panicked"
                /\ panic.tag = "Panic"
                /\ Contains(panic.msg, Debug(last.in.u))
    /\ (last.op = "expect" /\ last.in.tag = "Unexpected") =>
          \E i \in 0..Len(panic.msg), j \in 0..Len(panic.msg) :
              /\ OccursAt(last.arg.t, panic.msg, i)
              /\ OccursAt(Debug(last.in.u), panic.msg, j)
              /\ i + Len(last.arg.t) <= j
    /\ last.op = "unwrap_unexpected" =>
          /\ last.in.tag = "Unexpected" =>
                ty = "Done" /\ val = last.in.u /\ panic = Nil
          /\ last.in.tag = "Expected" =>
                /\ ty = "Panicked"
                /\ panic.tag = "Panic"
                /\ Contains(panic.msg, Debug(last.in.e))

C4_Witness ==
    /\ last.op = "expect"
    /\ last.in = Unexpected(StrVal(<<"failure">>))
    /\ ty = "Panicked"
    /\ panic.msg = <<"Testing expect", ": ", "\"", "failure", "\"">>

\* C5, as claimed: for a box built from a structured error e with
\* RawUnexpected::new(e), source() is e's own declared cause when e has
\* one and None when e has none.
C5_SourceIsDeclaredCause ==
    (last.op = "source" /\ ty = "Raw" /\ hist[1] = "new") => last.out = ErrSource(root.id)

\* C5, amended: for a box built from a structured error e with
\* RawUnexpected::new(e), source() is a link to e itself, present whether
\* or not e declares a cause; e's declared cause is one link further.
C5_SourceIsBoxedError ==
    (last.op = "source" /\ ty = "Raw" /\ hist[1] = "new") =>
        /\ last.out = Some(root)
        /\ ErrSource(last.out.v.id) = ErrSource(root.id)

C5_Witness ==
    /\ last.op = "source"
    /\ ty = "Raw"
    /\ hist[1] = "new"
    /\ root = ErrVal("FmtError")
    /\ last.out = Some(ErrVal("FmtError"))

\* C6, as claimed: unexpect_msg applied to Err(b), b a RawUnexpected,
\* returns Err(b) unchanged.
C6_UnexpectMsgIdempotent ==
    (last.op = "unexpect_msg" /\ ErrKind(last.in) = "raw") =>
        /\ last.out = last.in
        /\ RawSource(last.out.e) = RawSource(last.in.e)

\* C6, amended: unexpect applied to Err(b), b a RawUnexpected, returns
\* Err(b) unchanged, so the box keeps its state and its source() and
\* applying it twice equals applying it once; unexpect_msg applied to
\* Err(b) boxes b again, as the message of a new box in the Message state
\* that has no source() and displays as b does.
C6_UnexpectIdempotent ==
    /\ (last.op = "unexpect" /\ ErrKind(last.in) = "raw") =>
          /\ last.out = last.in
          /\ val = last.in
          /\ RawSource(val.e) = RawSource(last.in.e)
    /\ (last.op = "unexpect_msg" /\ ErrKind(last.in) = "raw") =>
          /\ last.out.tag = "Err"
          /\ last.out.e.internal = ErrorTyMessage(last.in.e)
          /\ RawSource(last.out.e) = None
          /\ Display(last.out.e) = Display(last.in.e)

C6_Witness ==
    /\ hist = <<"Err", "unexpect", "unexpect">>
    /\ root = ErrVal("OuterError")
    /\ val = Err(RawUnexpected(ErrorTyError(ErrVal("OuterError"))))

\* C7, as claimed: unwrap_result, unwrap_expected_err and
\* unwrap_unexpected_err let Ok(v) pass through untouched and do not panic
\* on it.
C7_OkPassesThrough ==
    (/\ last.op \in {"unwrap_result", "unwrap_expected_err", "unwrap_unexpected_err"}
     /\ last.in.tag = "Ok") =>
        ty = "Done" /\ panic = Nil

\* C7, amended: unwrap_result lets Ok(v) pass through untouched, turns
\* Err(Expected(e)) into Err(e) and panics only on Err(Unexpected(u)).
\* unwrap_expected_err and unwrap_unexpected_err return the bare payload of
\* the matching variant, and panic on Ok(v), with the Debug rendering of v,
\* as well as on a failure that holds the other variant.
C7_UnwrapThroughResult ==
    /\ last.op = "unwrap_result" =>
          /\ last.in.tag = "Ok" => ty = "Done" /\ val = last.in /\ panic = Nil
          /\ (last.in.tag = "Err" /\ last.in.e.tag = "Expected") =>
                ty = "Done" /\ val = Err(last.in.e.e) /\ panic = Nil
          /\ (last.in.tag = "Err" /\ last.in.e.tag = "Unexpected") =>
                /\ ty = "Panicked"
                /\ panic.tag = "Panic"
                /\ Contains(panic.msg, Debug(last.in.e.u))
    /\ last.op = "unwrap_expected_err" =>
          /\ last.in.tag = "Ok" =>
                /\ ty = "Panicked"
                /\ panic.tag = "Panic"
                /\ Contains(panic.msg, Debug(last.in.v))
          /\ (last.in.tag = "Err" /\ last.in.e.tag = "Expected") =>
                ty = "Done" /\ val = last.in.e.e /\ panic = Nil
          /\ (last.in.tag = "Err" /\ last.in.e.tag = "Unexpected") =>
                /\ ty = "Panicked"
                /\ panic.tag = "Panic"
                /\ Contains(panic.msg, Debug(last.in.e.u))
    /\ last.op = "unwrap_unexpected_err" =>
          /\ last.in.tag = "Ok" =>
                /\ ty = "Panicked"
                /\ panic.tag = "Panic"
                /\ Contains(panic.msg, Debug(last.in.v))
          /\ (last.in.tag = "Err" /\ last.in.e.tag = "Unexpected") =>
                ty = "Done" /\ val = last.in.e.u /\ panic = Nil
          /\ (last.in.tag = "Err" /\ last.in.e.tag = "Expected") =>
                /\ ty = "Panicked"
                /\ panic.tag = "Panic"
                /\ Contains(panic.msg, Debug(last.in.e.e))

C7_Witness ==
    /\ last.op = "unwrap_result"
    /\ last.in = Ok(IntVal(2))
    /\ ty = "Done"
    /\ val = Ok(IntVal(2))

ExunOps == {"expected", "unexpected", "map", "map_unexpected", "as_mut"}
ResultExunOps ==
    {"expected_err", "unexpected_err", "map_expected_err", "map_unexpected_err"}

\* The last operation was given a container holding Unexpected(u).
GivenUnexpected ==
    \/ last.op \in ExunOps /\ last.in.tag = "Unexpected"
    \/ /\ last.op \in ResultExunOps
       /\ last.in.tag = "Err"
       /\ last.in.e.tag = "Unexpected"

GivenU == IF last.op \in ExunOps THEN last.in.u ELSE last.in.e.u

\* u, or its image under the caller's function.
ImageOfU ==
    IF last.op \in {"map_unexpected", "map_unexpected_err"}
    THEN Apply(last.arg, GivenU)
    ELSE GivenU

\* u is obtainable from what the last operation returned.
Obtainable(u) ==
    \/ last.op = "as_mut" /\ ReadThrough(last.in, last.out) = u
    \/ last.op # "as_mut" /\ last.out.tag = "Some" /\ last.out.v = u
    \/ last.op # "as_mut" /\ last.out.tag = "Unexpected" /\ last.out.u = u
    \/ /\ last.op \in ResultExunOps
       /\ last.out.tag = "Err"
       /\ last.out.e.tag = "Unexpected"
       /\ last.out.e.u = u

\* C9, as claimed: for a container holding Unexpected(u), every non-fatal
\* operation (expected, unexpected, map, map_unexpected, as_mut,
\* expected_err, unexpected_err, map_expected_err, map_unexpected_err)
\* returns a value from which u, or its image, is still obtainable.
C9_NeverDropped ==
    GivenUnexpected => Obtainable(ImageOfU)

\* C9, amended: for a container holding Unexpected(u), unexpected, map,
\* map_unexpected, as_mut, unexpected_err, map_expected_err and
\* map_unexpected_err return a value from which u, or its image, is still
\* obtainable; expected and expected_err discard u and return None.
C9_DroppedOnlyByExpected ==
    GivenUnexpected =>
        IF last.op \in {"expected", "expected_err"}
        THEN last.out = None
        ELSE Obtainable(ImageOfU)

C9_Witness ==
    /\ last.op = "unexpected_err"
    /\ last.in = Err(Unexpected(ErrVal("ParseIntError")))
    /\ last.out = Some(ErrVal("ParseIntError"))

\* C10: display is preserved through boxing and wrapping:
\* RawUnexpected::msg(v) displays as v, RawUnexpected::new(e) displays as
\* e, a container displays as its payload; so an error e converted with
\* unexpect and wrapped as Unexpected displays as e's own display text.
C10_DisplayPreserved ==
    last.op = "display" =>
        /\ (ty = "Raw" /\ hist[1] \in {"msg", "new"}) =>
              last.out.t = Display(root)
        /\ HasContainer =>
              last.out.t = Display(Payload(Container))
        /\ (/\ Len(hist) >= 4
            /\ SubSeq(hist, 1, 3) = <<"Err", "unexpect", "into">>
            /\ \A i \in 4..Len(hist) : hist[i] = "display"
            /\ root.k = "err") =>
              last.out.t = ErrDisplay(root.id)

C10_Witness ==
    /\ hist = <<"Err", "unexpect", "into", "display">>
    /\ root = ErrVal("ParseIntError")
    /\ val = Err(Unexpected(RawUnexpected(ErrorTyError(ErrVal("ParseIntError")))))
    /\ last.out.t = <<"invalid digit found in string">>

\* The literal that Display writes for a box in the None state.
AbsentDisplay == <<"Called 'unexpect' on a 'None' value">>

\* C11, as claimed: the display of RawUnexpected::none() is one fixed,
\* non-empty string, and no box built by RawUnexpected::msg has that same
\* display.
C11_AbsentDisplayDistinct ==
    /\ (last.op = "display" /\ ty = "Raw" /\ hist[1] = "none") =>
          last.out.t = AbsentDisplay /\ Len(last.out.t) > 0
    /\ (last.op = "display" /\ ty = "Raw" /\ hist[1] = "msg") =>
          last.out.t # AbsentDisplay

\* C11, amended: the display of RawUnexpected::none() is one fixed,
\* non-empty string; a box built by RawUnexpected::msg(v) displays as v, so
\* it has that same display exactly when v itself displays as that string,
\* and it is still a different box (Message state, another Debug rendering).
C11_AbsentDisplayFixed ==
    /\ (last.op = "display" /\ ty = "Raw" /\ hist[1] = "none") =>
          last.out.t = AbsentDisplay /\ Len(last.out.t) > 0
    /\ (last.op = "display" /\ ty = "Raw" /\ hist[1] = "msg") =>
          /\ (last.out.t = AbsentDisplay) <=> (Display(root) = AbsentDisplay)
          /\ val.internal.ty = "Message"
          /\ Debug(val) # Debug(RawNone)

C11_Witness ==
    /\ hist = <<"msg", "display">>
    /\ root = StrVal(AbsentDisplay)
    /\ last.out.t = AbsentDisplay

\* C12: source() on a box is a present link only in the cause state: None
\* for every box built by RawUnexpected::msg and for RawUnexpected::none(),
\* Some for every box built by RawUnexpected::new.
C12_SourceOnlyForCause ==
    /\ ty = "Raw" => ((RawSource(val).tag = "Some") <=> (hist[1] = "new"))
    /\ (last.op = "source" /\ ty = "Raw") =>
          /\ hist[1] \in {"msg", "none"} => last.out = None
          /\ hist[1] = "new" => last.out.tag = "Some"

C12_Witness ==
    /\ hist = <<"msg", "source">>
    /\ root = ErrVal("OuterError")
    /\ last.out = None

\* The source a structured-error payload declares for itself.
OwnSource(p) == IF p.k = "err" THEN ErrSource(p.id) ELSE UErrSource(p)

\* C13, as claimed: when both payload types are structured errors, the
\* source() of Expected(e) is e's own source and the source() of
\* Unexpected(u) is u's own source, not a new link added by the container.
C13_Transparent ==
    (/\ last.op = "source"
     /\ ty = "Exun"
     /\ Payload(last.in).k \in {"err", "uerr"}) =>
        last.out = OwnSource(Payload(last.in))

\* C13, amended: when both payload types are structured errors, the
\* source() of Expected(e) is e itself and the source() of Unexpected(u) is
\* u itself: the populated payload is the next link, and its own chain
\* continues from there.  For Exun<E, RawUnexpected>, Unexpected(b) gives
\* b.source(): the error boxed in b, or None for a Message or None box.
C13_SourceIsPayload ==
    (last.op = "source" /\ ty = "Exun") =>
        IF Payload(last.in).k \in {"err", "uerr"}
        THEN /\ last.out = Some(Payload(last.in))
             /\ OwnSource(last.out.v) = OwnSource(Payload(last.in))
        ELSE /\ last.in.tag = "Unexpected"
             /\ last.in.u.k = "raw"
             /\ last.in.u.internal.ty = "Error" =>
                   last.out = Some(last.in.u.internal.e)
             /\ last.in.u.internal.ty # "Error" => last.out = None

C13_Witness ==
    /\ last.op = "source"
    /\ ty = "Exun"
    /\ last.in = Expected(ErrVal("OuterError"))
    /\ last.out = Some(ErrVal("OuterError"))

\* C14: UnexpectedError adds no state and forwards to the inner box: for
\* every box b, UnexpectedError::from(b) holds b and has b's display and
\* b's source(); converting b into a container gives Unexpected(b) for
\* Exun<E, RawUnexpected> and Unexpected(UnexpectedError::from(b)) for
\* Exun<E, UnexpectedError>, never Expected.
C14_WrapperForwards ==
    /\ last.op = "wrap" =>
          /\ val = [k |-> "uerr", inner |-> last.in]
          /\ UErrAsRef(val) = last.in
    /\ (ty = "UErr" /\ last.op = "display") =>
          /\ last.out.t = Display(val.inner)
          /\ hist[1] \in {"msg", "new"} => last.out.t = Display(root)
          /\ hist[1] = "none" => last.out.t = AbsentDisplay
    /\ (ty = "UErr" /\ last.op = "source") =>
          /\ last.out = RawSource(val.inner)
          /\ last.out = (IF hist[1] = "new" THEN Some(root) ELSE None)
    /\ (ty = "UErr" /\ last.op = "as_ref") => last.out = val.inner
    /\ (ty = "Exun" /\ last.op = "into") =>
          val.tag = "Unexpected" /\ val.u = last.in
    /\ last.op = "into_wrapped" =>
          /\ val.tag = "Unexpected"
          /\ val.u = [k |-> "uerr", inner |-> last.in]

C14_Witness ==
    /\ hist = <<"new", "wrap", "source">>
    /\ root = ErrVal("OuterError")
    /\ last.out = Some(ErrVal("OuterError"))

\* The operations that may panic, and those that may not.
FatalOps ==
    {"unwrap", "unwrap_unexpected", "expect",
     "unwrap_result", "unwrap_expected_err", "unwrap_unexpected_err"}
TotalOps ==
    {"expected", "unexpected", "as_mut", "map", "map_unexpected",
     "new", "msg", "none", "source", "display", "unexpect", "unexpect_msg",
     "expected_err", "unexpected_err", "map_expected_err", "map_unexpected_err"}

\* C15: every operation outside the unwrap and expect family is total:
\* expected, unexpected, as_mut, map, map_unexpected, the box constructors,
\* source, display, unexpect, unexpect_msg, expected_err, unexpected_err,
\* map_expected_err and map_unexpected_err return a value and never panic;
\* a panic is reached only through unwrap, unwrap_unexpected, expect,
\* unwrap_result, unwrap_expected_err or unwrap_unexpected_err.
C15_OnlyUnwrapPanics ==
    /\ (ty = "Panicked" \/ panic # Nil) =>
          /\ last.op \in FatalOps
          /\ ty = "Panicked"
          /\ panic.tag = "Panic"
    /\ last.op \in TotalOps =>
          /\ ty # "Panicked"
          /\ panic = Nil
          /\ last.out # Nil
    /\ last.op \notin FatalOps => ty # "Panicked"

C15_Witness ==
    /\ hist = <<"Err", "unexpect_msg", "into", "map_expected_err", "unwrap_result">>
    /\ ty = "Panicked"
    /\ panic.tag = "Panic"

====
